---- MODULE Spec2Model ----
(***************************************************************************)
(* Model of tools/update-docs.ts: the documentation generator that, for    *)
(* every rule of the registry, reads docs/rules/<ruleName>.md, rewrites    *)
(* its header, footer, code-block tags and front matter, and writes it     *)
(* back.                                                                   *)
(*                                                                         *)
(* Text is a sequence of one-character strings (UTF-16 code units).  Every *)
(* regular expression of the source is an operator that computes the match *)
(* the ECMAScript backtracking matcher finds; every String.replace with a  *)
(* replacement string goes through GetSubstitution ($$, $&, $`, $', $n).   *)
(***************************************************************************)
EXTENDS Integers, Sequences, FiniteSets, TLC

VARIABLES
    rules,      \* the rule registry: a sequence of rule descriptors
    files,      \* docs/rules: ruleName -> <<>> (no file) or <<text>>
    isWin,      \* require("os").platform().startsWith("win")
    idx,        \* position of the for loop in rules
    pc,         \* last completed step of the chain for rules[idx]
    content,    \* DocFile.content of the DocFile in flight
    input,      \* history: content as read (or as handed to the operation)
    once,       \* history: <<text>> after the first of two applications
    rules0,     \* history: the registry when the run started
    files0,     \* history: docs/rules when the run in progress started
    log,        \* history: the file-system calls made, in order
    pass        \* number of the run in progress

vars == <<rules, files, isWin, idx, pc, content, input, once,
          rules0, files0, log, pass>>

-----------------------------------------------------------------------------
(* Text *)

\* The code units of a string literal.
Chars(str) == [i \in 1..Len(str) |-> SubSeq(str, i, i)]

\* U+0060 GRAVE ACCENT, which a TLA+ string literal cannot hold.
Backtick == "U+0060"
\* U+2764 U+FE0F, the emoji of the attribution line.
Heart == <<"U+2764", "U+FE0F">>

NL == {"\n"}
\* LineTerminator: what `.` does not match.
LineTerminator == {"\n", "\r"}
\* WhiteSpace and LineTerminator: what \s matches and trim() strips.
WhiteSpace == {" ", "\t", "\n", "\r"}

Drop(s, n) == SubSeq(s, n + 1, Len(s))

StartsWithAt(s, i, lit) ==
    /\ i >= 1
    /\ i + Len(lit) - 1 <= Len(s)
    /\ \A k \in 1..Len(lit) : s[i + k - 1] = lit[k]

\* First index >= i whose character is not in cls (Len(s) + 1 if none).
SkipIn(s, i, cls) ==
    CHOOSE j \in i..(Len(s) + 1) :
        /\ j = Len(s) + 1 \/ s[j] \notin cls
        /\ \A k \in i..(j - 1) : s[k] \in cls

\* First index >= i whose character is in cls (Len(s) + 1 if none).
SkipNotIn(s, i, cls) ==
    CHOOSE j \in i..(Len(s) + 1) :
        /\ j = Len(s) + 1 \/ s[j] \in cls
        /\ \A k \in i..(j - 1) : s[k] \notin cls

\* Last index <= i whose character is not in cls (0 if none).
SkipInBack(s, i, cls) ==
    CHOOSE j \in 0..i :
        /\ j = 0 \/ s[j] \notin cls
        /\ \A k \in (j + 1)..i : s[k] \in cls

\* String.prototype.trim
Trim(s) ==
    LET a == SkipIn(s, 1, WhiteSpace)
        b == SkipInBack(s, Len(s), WhiteSpace)
    IN  IF a > b THEN <<>> ELSE SubSeq(s, a, b)

\* Array.prototype.join
RECURSIVE Join(_, _)
Join(items, sep) ==
    IF Len(items) = 0 THEN <<>>
    ELSE IF Len(items) = 1 THEN items[1]
    ELSE items[1] \o sep \o Join(Tail(items), sep)

Digits == Chars("0123456789")
DigitValue(c) == (CHOOSE k \in 1..10 : Digits[k] = c) - 1
IsDigit(c) == \E k \in 1..10 : Digits[k] = c

\* GetSubstitution of String.prototype.replace for a replacement string:
\* m = [from, to) is the match in s, caps the captures of the match.
RECURSIVE GetSubstitution(_, _, _, _, _, _)
GetSubstitution(repl, i, s, from, to, caps) ==
    LET d == SkipNotIn(repl, i, {"$"})
        rest(n) == GetSubstitution(repl, d + n, s, from, to, caps)
        c == repl[d + 1]
        nn == 10 * DigitValue(c) + DigitValue(repl[d + 2])
    IN  IF d >= Len(repl) THEN SubSeq(repl, i, Len(repl))
        ELSE SubSeq(repl, i, d - 1) \o
             (IF c = "$" THEN <<"$">> \o rest(2)
              ELSE IF c = "&" THEN SubSeq(s, from, to - 1) \o rest(2)
              ELSE IF c = Backtick THEN SubSeq(s, 1, from - 1) \o rest(2)
              ELSE IF c = "'" THEN SubSeq(s, to, Len(s)) \o rest(2)
              ELSE IF /\ IsDigit(c)
                      /\ d + 2 <= Len(repl)
                      /\ IsDigit(repl[d + 2])
                      /\ nn \in 1..Len(caps)
                   THEN caps[nn] \o rest(3)
              ELSE IF IsDigit(c) /\ DigitValue(c) \in 1..Len(caps)
                   THEN caps[DigitValue(c)] \o rest(2)
              ELSE <<"$">> \o rest(1))

\* s with the match [from, to) replaced by the expansion of repl.
ReplaceMatch(s, from, to, caps, repl) ==
    SubSeq(s, 1, from - 1)
        \o GetSubstitution(repl, 1, s, from, to, caps)
        \o SubSeq(s, to, Len(s))

-----------------------------------------------------------------------------
(* formatItems, yamlValue *)

\* formatItems that joins every list with " and ".
formatItemsAllAnd(items) == Join(items, Chars(" and "))

formatItems(items) ==
    IF Len(items) <= 2 THEN Join(items, Chars(" and "))
    ELSE Chars("all of ")
            \o Join(SubSeq(items, 1, Len(items) - 1), Chars(", "))
            \o Chars(" and ")
            \o items[Len(items)]

\* val.replace(/\\/gu, "\\\\"): the replacement string "\\\\" is two
\* backslashes, neither of them a $ pattern.
RECURSIVE EscapeBackslashes(_)
EscapeBackslashes(s) ==
    IF s = <<>> THEN <<>>
    ELSE (IF Head(s) = "\\" THEN <<"\\", "\\">> ELSE <<Head(s)>>)
            \o EscapeBackslashes(Tail(s))

\* .replace(/"/gu, '\\"')
RECURSIVE EscapeQuotes(_)
EscapeQuotes(s) ==
    IF s = <<>> THEN <<>>
    ELSE (IF Head(s) = "\"" THEN <<"\\", "\"">> ELSE <<Head(s)>>)
            \o EscapeQuotes(Tail(s))

\* yamlValue of a string value; a value that is no string (sidebarDepth) is
\* returned as it is and printed by the template literal.
yamlValue(val) == <<"\"">> \o EscapeQuotes(EscapeBackslashes(val)) \o <<"\"">>

-----------------------------------------------------------------------------
(* Rule descriptors: [ruleName, ruleId, description, fixable, deprecated,
   replacedBy, categories, extensionRule]; names are strings, description
   is text. *)

\* A field that may be absent (null or undefined) is <<>>, a present value v
\* is <<v>>: an empty array is a present value.
Absent == <<>>
Present(v) == <<v>>
IsPresent(o) == Len(o) = 1
ValueOf(o) == o[1]

\* UTF-16 code unit order of the letters rule and preset names are made of.
CodeUnitOrder == Chars("-/0123456789abcdefghijklmnopqrstuvwxyz")
CodeUnit(c) == CHOOSE k \in 1..Len(CodeUnitOrder) : CodeUnitOrder[k] = c

\* a < b as Array.prototype.sort without a comparator orders strings.
LexLess(a, b) ==
    \E k \in 1..(Len(b)) :
        /\ \A j \in 1..(k - 1) : j <= Len(a) /\ a[j] = b[j]
        /\ k = Len(a) + 1 \/ (k <= Len(a) /\ CodeUnit(a[k]) < CodeUnit(b[k]))

\* items with x inserted after the last element that is not greater than x.
InsertSorted(items, x) ==
    LET n == Cardinality({k \in 1..Len(items) : ~LexLess(Chars(x), Chars(items[k]))})
    IN  SubSeq(items, 1, n) \o <<x>> \o SubSeq(items, n + 1, Len(items))

\* Array.prototype.sort(): the elements as strings, in code unit order
\* (stable; it sorts the array in place and returns it).
RECURSIVE SortStrings(_)
SortStrings(items) ==
    IF Len(items) <= 1 THEN items
    ELSE InsertSorted(SortStrings(SubSeq(items, 1, Len(items) - 1)),
                      items[Len(items)])

-----------------------------------------------------------------------------
(* DocFile.updateHeader *)

FixNote ==
    Chars("- :wrench: The ") \o <<Backtick>> \o Chars("--fix") \o <<Backtick>>
        \o Chars(" option on the [command line](https://eslint.org/docs/user-guide/command-line-interface#fixing-problems) can automatically fix some of the problems reported by this rule.")

\* `[yml/${name}](${name}.md) rule`
replacedRule(name) ==
    Chars("[yml/") \o Chars(name) \o Chars("](") \o Chars(name) \o Chars(".md) rule")

\* `\`"plugin:yml/${cat}"\``
preset(cat) ==
    <<Backtick>> \o Chars("\"plugin:yml/") \o Chars(cat) \o Chars("\"") \o <<Backtick>>

\* The categories as the descriptor lists them.
unsortedCategories(rule) == ValueOf(rule.categories)

\* The array the for loop of updateHeader iterates: categories.sort().
sortedCategories(rule) == SortStrings(ValueOf(rule.categories))

\* The deprecation note or the preset note (lines 51-77).
statusNotes(rule) ==
    IF rule.deprecated
    THEN IF IsPresent(rule.replacedBy)
         THEN LET by == ValueOf(rule.replacedBy)
                  replacedRules == [k \in 1..Len(by) |-> replacedRule(by[k])]
              IN  << Chars("- :warning: This rule was **deprecated** and replaced by ")
                        \o formatItems(replacedRules) \o Chars(".") >>
         ELSE << Chars("- :warning: This rule was **deprecated**.") >>
    ELSE IF IsPresent(rule.categories)
         THEN LET cats == sortedCategories(rule)
                  presets == [k \in 1..Len(cats) |-> preset(cats[k])]
              IN  << Chars("- :gear: This rule is included in ")
                        \o formatItems(presets) \o Chars(".") >>
         ELSE << >>

\* The fix note (lines 78-82).
fixNotes(rule) == IF rule.fixable THEN <<FixNote>> ELSE << >>

\* notes, with the two empty strings pushed after them (lines 49-87).
headerNotes(rule) ==
    LET notes == statusNotes(rule) \o fixNotes(rule)
    IN  IF Len(notes) >= 1 THEN notes \o << <<>>, <<>> >> ELSE notes

\* `# ${ruleId}\n\n> ${description}`
headerTitle(rule) ==
    Chars("# ") \o Chars(rule.ruleId) \o Chars("\n\n> ") \o rule.description

\* `${title}\n\n${notes.join("\n")}`
headerText(rule) ==
    headerTitle(rule) \o Chars("\n\n") \o Join(headerNotes(rule), Chars("\n"))

\* (?:- .+\n+)* from p: the index after the last iteration.
RECURSIVE headerNotesEnd(_, _)
headerNotesEnd(s, p) ==
    IF StartsWithAt(s, p, Chars("- "))
    THEN LET d == SkipNotIn(s, p + 2, LineTerminator)
         IN  IF d > p + 2 /\ d <= Len(s) /\ s[d] = "\n"
             THEN headerNotesEnd(s, SkipIn(s, d, NL))
             ELSE p
    ELSE p

\* /#.+\n+[^\n]*\n+(?:- .+\n+)*\n*/u tried at i: the index after the match,
\* 0 if there is none.  `.+` ends where the line does and `\n+` takes every
\* newline, so the only backtracking that can succeed is the first `\n+`
\* giving its last newline to the second one, when the text ends before
\* another newline comes.
headerMatchEnd(s, i) ==
    IF ~(i <= Len(s) /\ s[i] = "#") THEN 0
    ELSE LET d == SkipNotIn(s, i + 1, LineTerminator)
         IN  IF ~(d > i + 1 /\ d <= Len(s) /\ s[d] = "\n") THEN 0
             ELSE LET n1 == SkipIn(s, d, NL)
                      r == SkipNotIn(s, n1, NL)
                  IN  IF r <= Len(s) THEN headerNotesEnd(s, SkipIn(s, r, NL))
                      ELSE IF n1 - d >= 2 THEN n1
                      ELSE 0

\* The least element of a set of indices, 0 if it is empty.
Least(S) == IF S = {} THEN 0 ELSE CHOOSE x \in S : \A y \in S : x <= y
Greatest(S) == IF S = {} THEN 0 ELSE CHOOSE x \in S : \A y \in S : x >= y

\* Where headerPattern first matches, 0 if nowhere.
headerMatchStart(s) == Least({i \in 1..Len(s) : headerMatchEnd(s, i) # 0})

\* this.content after updateHeader (lines 89-96).
updateHeaderText(s, rule) ==
    LET m == headerMatchStart(s)
    IN  IF m # 0
        THEN ReplaceMatch(s, m, headerMatchEnd(s, m), <<>>, headerText(rule))
        ELSE headerText(rule) \o Trim(s) \o Chars("\n")

\* this.rule after updateHeader: categories.sort() sorts the descriptor's
\* own array (line 68).
updateHeaderRule(rule) ==
    IF ~rule.deprecated /\ IsPresent(rule.categories)
    THEN [rule EXCEPT !.categories = Present(sortedCategories(rule))]
    ELSE rule

-----------------------------------------------------------------------------
(* DocFile.updateFooter *)

ImplementationHeading == Chars("## Implementation")

footerText(rule) ==
    ImplementationHeading
        \o Chars("\n\n- [Rule source](https://github.com/ota-meshi/eslint-plugin-yml/blob/master/src/rules/")
        \o Chars(rule.ruleName)
        \o Chars(".ts)\n- [Test source](https://github.com/ota-meshi/eslint-plugin-yml/blob/master/tests/src/rules/")
        \o Chars(rule.ruleName)
        \o Chars(".js)\n")
        \o (IF rule.extensionRule
            THEN Chars("\n<sup>Taken with ") \o Heart
                    \o Chars(" [from ESLint core](https://eslint.org/docs/rules/")
                    \o Chars(rule.ruleName) \o Chars(")</sup>\n")
            ELSE <<>>)

\* Where /## Implementation[\s\S]+$/u first matches (it needs one character
\* after the heading and runs to the end of the text), 0 if nowhere.
footerMatchStart(s) ==
    Least({i \in 1..(Len(s) - Len(ImplementationHeading)) :
              StartsWithAt(s, i, ImplementationHeading)})

\* this.content after updateFooter (lines 115-119).
updateFooterText(s, rule) ==
    LET m == footerMatchStart(s)
    IN  IF m # 0
        THEN ReplaceMatch(s, m, Len(s) + 1, <<>>, footerText(rule))
        ELSE Trim(s) \o Chars("\n\n") \o footerText(rule)

-----------------------------------------------------------------------------
(* DocFile.updateCodeBlocks *)

EslintCodeBlock == Chars("<eslint-code-block")

\* str.split(/\s+/u) from i: the pieces between the runs of white space, the
\* empty ones at the ends included.
RECURSIVE SplitWhiteSpace(_, _)
SplitWhiteSpace(str, i) ==
    LET b == SkipNotIn(str, i, WhiteSpace)
    IN  IF b > Len(str) THEN << SubSeq(str, i, Len(str)) >>
        ELSE << SubSeq(str, i, b - 1) >>
                \o SplitWhiteSpace(str, SkipIn(str, b, WhiteSpace))

\* The callback without the filter that drops an attribute "fix".
codeBlockTagKeepsFix(str, fixable) ==
    LET pieces == SplitWhiteSpace(str, 1)
        trimmed == [k \in 1..Len(pieces) |-> Trim(pieces[k])]
        ps == SelectSeq(trimmed, LAMBDA x : x # <<>>)
        withFix == IF fixable THEN << Chars("fix") >> \o ps ELSE ps
    IN  Join(<<EslintCodeBlock>> \o withFix, Chars(" ")) \o Chars(">")

\* The callback of the replace (lines 129-139).
codeBlockTag(str, fixable) ==
    LET pieces == SplitWhiteSpace(str, 1)
        trimmed == [k \in 1..Len(pieces) |-> Trim(pieces[k])]
        ps == SelectSeq(trimmed, LAMBDA x : x # <<>> /\ x # Chars("fix"))
        withFix == IF fixable THEN << Chars("fix") >> \o ps ELSE ps
    IN  Join(<<EslintCodeBlock>> \o withFix, Chars(" ")) \o Chars(">")

\* /<eslint-code-block(.*?)>/ tried at i: the index of the closing ">", the
\* first one on the line, 0 if there is no match.
codeBlockTagEnd(s, i) ==
    IF ~StartsWithAt(s, i, EslintCodeBlock) THEN 0
    ELSE LET g == SkipNotIn(s, i + Len(EslintCodeBlock), LineTerminator \cup {">"})
         IN  IF g <= Len(s) /\ s[g] = ">" THEN g ELSE 0

\* The text from i on with every match replaced (the g flag).
RECURSIVE updateCodeBlocksFrom(_, _, _)
updateCodeBlocksFrom(s, i, fixable) ==
    LET m == Least({k \in i..Len(s) : codeBlockTagEnd(s, k) # 0})
        e == codeBlockTagEnd(s, m)
    IN  IF m = 0 THEN SubSeq(s, i, Len(s))
        ELSE SubSeq(s, i, m - 1)
                \o codeBlockTag(SubSeq(s, m + Len(EslintCodeBlock), e - 1), fixable)
                \o updateCodeBlocksFrom(s, e + 1, fixable)

\* this.content after updateCodeBlocks; meta.fixable is read for its truth.
updateCodeBlocksText(s, rule) == updateCodeBlocksFrom(s, 1, rule.fixable)

-----------------------------------------------------------------------------
(* DocFile.adjustCodeBlocks *)

Fence == <<Backtick, Backtick, Backtick>>
EslintCodeBlockClose == Chars("</eslint-code-block>")

\* /(<eslint-code-block([\s\S]*?)>)\n+```/ tried at i: the index of the ">"
\* the lazy group stops at, the first one followed by newlines and a fence,
\* 0 if there is no match.
openTagFenceGt(s, i) ==
    IF ~StartsWithAt(s, i, EslintCodeBlock) THEN 0
    ELSE Least({k \in (i + Len(EslintCodeBlock))..Len(s) :
                  /\ s[k] = ">"
                  /\ k + 1 <= Len(s)
                  /\ s[k + 1] = "\n"
                  /\ StartsWithAt(s, SkipIn(s, k + 1, NL), Fence)})

\* First replace of adjustCodeBlocks, from i on: "$1\n\n```".
RECURSIVE adjustOpenFrom(_, _)
adjustOpenFrom(s, i) ==
    LET m == Least({k \in i..Len(s) : openTagFenceGt(s, k) # 0})
        g == openTagFenceGt(s, m)
        e == SkipIn(s, g + 1, NL) + Len(Fence)
        caps == << SubSeq(s, m, g), SubSeq(s, m + Len(EslintCodeBlock), g - 1) >>
    IN  IF m = 0 THEN SubSeq(s, i, Len(s))
        ELSE SubSeq(s, i, m - 1)
                \o GetSubstitution(Chars("$1\n\n") \o Fence, 1, s, m, e, caps)
                \o adjustOpenFrom(s, e)

\* /```\n+<\/eslint-code-block>/ tried at i: the index after the match, 0 if
\* there is none.
fenceCloseEnd(s, i) ==
    IF ~(StartsWithAt(s, i, Fence) /\ StartsWithAt(s, i + Len(Fence), Chars("\n")))
    THEN 0
    ELSE LET q == SkipIn(s, i + Len(Fence), NL)
         IN  IF StartsWithAt(s, q, EslintCodeBlockClose)
             THEN q + Len(EslintCodeBlockClose)
             ELSE 0

\* Second replace of adjustCodeBlocks, from i on.
RECURSIVE adjustCloseFrom(_, _)
adjustCloseFrom(s, i) ==
    LET m == Least({k \in i..Len(s) : fenceCloseEnd(s, k) # 0})
        e == fenceCloseEnd(s, m)
    IN  IF m = 0 THEN SubSeq(s, i, Len(s))
        ELSE SubSeq(s, i, m - 1)
                \o GetSubstitution(Fence \o Chars("\n\n") \o EslintCodeBlockClose,
                                   1, s, m, e, <<>>)
                \o adjustCloseFrom(s, e)

\* this.content after adjustCodeBlocks.
adjustCodeBlocksText(s) == adjustCloseFrom(adjustOpenFrom(s, 1), 1)

-----------------------------------------------------------------------------
(* DocFile.updateFileIntro *)

FrontMatterFence == Chars("---")

\* `---\n${keys.map((key) => `${key}: ${yamlValue(fileIntro[key])}`).join("\n")}\n---\n`
computedIntro(rule) ==
    Chars("---\n")
        \o Join(<< Chars("pageClass: ") \o yamlValue(Chars("rule-details")),
                   Chars("sidebarDepth: ") \o Chars("0"),
                   Chars("title: ") \o yamlValue(Chars(rule.ruleId)),
                   Chars("description: ") \o yamlValue(rule.description) >>,
                Chars("\n"))
        \o Chars("\n---\n")

\* /^---\n(.*\n)+---\n*/ : the index of the closing "---".  `^` is the start
\* of the text (no m flag); every iteration of (.*\n) is one whole line with
\* no line terminator but its "\n"; the group is greedy, so of the lines that
\* start with "---" the LAST one that only such lines precede closes the
\* match.  0 if there is no match.
fileIntroCloseStart(s) ==
    IF ~StartsWithAt(s, 1, Chars("---\n")) THEN 0
    ELSE LET clean == SkipNotIn(s, 5, {"\r"})
         IN  Greatest({p \in 6..Len(s) :
                          /\ p <= clean
                          /\ s[p - 1] = "\n"
                          /\ StartsWithAt(s, p, FrontMatterFence)})

\* The capture of the last iteration of (.*\n): the line before the close.
fileIntroCapture(s, p) ==
    SubSeq(s, Greatest({k \in 4..(p - 2) : s[k] = "\n"}) + 1, p - 1)

\* this.content after updateFileIntro (lines 170-176).
updateFileIntroText(s, rule) ==
    LET p == fileIntroCloseStart(s)
    IN  IF p # 0
        THEN ReplaceMatch(s, 1, SkipIn(s, p + Len(FrontMatterFence), NL),
                          << fileIntroCapture(s, p) >>, computedIntro(rule))
        ELSE computedIntro(rule) \o Trim(s) \o Chars("\n")

-----------------------------------------------------------------------------
(* DocFile.write *)

\* content.replace(/\r?\n/gu, eol) from i on: a "\r" belongs to the match
\* only when the "\n" follows it directly.
RECURSIVE lineEndingsFrom(_, _, _)
lineEndingsFrom(s, i, eol) ==
    LET n == SkipNotIn(s, i, NL)
        last == IF n - 1 >= i /\ s[n - 1] = "\r" THEN n - 2 ELSE n - 1
    IN  IF n > Len(s) THEN SubSeq(s, i, Len(s))
        ELSE SubSeq(s, i, last) \o eol \o lineEndingsFrom(s, n + 1, eol)

\* The text write() hands to fs.writeFileSync.
writeText(s, win) == lineEndingsFrom(s, 1, IF win THEN Chars("\r\n") ELSE Chars("\n"))

-----------------------------------------------------------------------------
(* Inputs: the rule descriptors and documents the runs start from *)

\* Longest replacedBy and categories list.
MaxItems == 3
\* Most fragments a document is put together from, per operation.
MaxHeaderFrags == 3
MaxFooterFrags == 4
MaxTagFrags == 4
MaxIntroFrags == 5
\* Longest description of the escaping runs.
MaxDescLen == 3
\* Most rules in the registry, and most runs of the tool.
MaxRules == 2
MaxPass == 2

RECURSIVE Concat(_)
Concat(fs) == IF fs = <<>> THEN <<>> ELSE Head(fs) \o Concat(Tail(fs))

\* The sequences of at most n elements of S.
SeqsUpTo(S, n) == UNION {[1..k -> S] : k \in 0..n}

\* The texts put together from at most n of the fragments.
TextsOf(frags, n) == {Concat(fs) : fs \in SeqsUpTo(frags, n)}

\* The lists of at most n different elements of S, in every order.
ListsOf(S, n) ==
    {q \in SeqsUpTo(S, n) : \A i, j \in 1..Len(q) : i # j => q[i] # q[j]}

RuleNames == <<"a", "b", "c", "e">>
PresetNames == {"recommended", "standard", "strict"}

\* A rule named name (the plugin's rule ids are "yml/" + ruleName).
RuleOf(name, desc, fix, dep, by, cats, ext) ==
    [ruleName |-> name, ruleId |-> "yml/" \o name, description |-> desc,
     fixable |-> fix, deprecated |-> dep, replacedBy |-> by,
     categories |-> cats, extensionRule |-> ext]

PlainRule == RuleOf("r", Chars("d"), FALSE, FALSE, Absent, Absent, FALSE)

\* replacedBy: absent, or the first n of the rule names.
ReplacedByLists ==
    {Absent} \cup {Present(SubSeq(RuleNames, 1, n)) : n \in 0..MaxItems}
\* categories: absent, or presets in any order.
CategoryLists ==
    {Absent} \cup {Present(q) : q \in ListsOf(PresetNames, MaxItems)}

HeaderRules ==
    {RuleOf("r", Chars("d"), fix, TRUE, by, cats, FALSE) :
        fix \in BOOLEAN, by \in ReplacedByLists,
        cats \in {Absent, Present(<<"recommended">>)}}
    \cup
    {RuleOf("r", Chars("d"), fix, FALSE, by, cats, FALSE) :
        fix \in BOOLEAN, by \in {Absent, Present(<<"b">>)},
        cats \in CategoryLists}

HeaderFrags ==
    {Chars("# t\n\n"), Chars("> old\n\n"), Chars("- n\n"), Chars("x\n"), Chars("\n")}
HeaderDocs == TextsOf(HeaderFrags, MaxHeaderFrags)

FooterRules ==
    {RuleOf("r", Chars("d"), FALSE, FALSE, Absent, Absent, ext) : ext \in BOOLEAN}
FooterFrags ==
    {Chars("# t\n"), ImplementationHeading, Chars("\n"), Chars("x"), Chars(" ")}
FooterDocs == TextsOf(FooterFrags, MaxFooterFrags)

CodeBlockRules ==
    {RuleOf("r", Chars("d"), fix, FALSE, Absent, Absent, FALSE) : fix \in BOOLEAN}
CodeBlockFrags ==
    {EslintCodeBlock, Chars(">"), Chars(" fix"), Chars(" someattr"),
     Chars("fix"), Chars("\t"), Chars("\n")}
CodeBlockDocs == TextsOf(CodeBlockFrags, MaxTagFrags)

IntroFrags ==
    {Chars("---\n"), Chars("k: v\n"), Chars("# t\n"), Chars("--- x\n"), Chars("\n")}
IntroDocs == TextsOf(IntroFrags, MaxIntroFrags)

EscapeAlphabet == {Chars("a"), Chars("\""), Chars("\\"), Chars("$"), Chars("&")}
EscapeRules ==
    {RuleOf("r", desc, FALSE, FALSE, Absent, Absent, FALSE) :
        desc \in TextsOf(EscapeAlphabet, MaxDescLen)}
EscapeDocs ==
    {Chars("# t\n"), Chars("---\nk: v\n---\n# t\n"), Chars("---\nk: v\n---\n")}

\* The rules a registry holds at position k.
RuleVariants(k) ==
    {RuleOf(RuleNames[k], Chars("d"), TRUE, FALSE, Absent,
            Present(<<"standard", "recommended">>), FALSE),
     RuleOf(RuleNames[k], Chars("d"), FALSE, FALSE, Absent, Absent, TRUE)}
RegistriesOf(n) ==
    {q \in [1..n -> UNION {RuleVariants(k) : k \in 1..n}] :
        \A k \in 1..n : q[k] \in RuleVariants(k)}

\* A rule page with an example, one whose YAML example starts with "---", and
\* one checked out with CRLF line endings.
MainDocs ==
    {Chars("# t\n\n> old\n\nText.\n\n<eslint-code-block>\n")
        \o Fence \o Chars("yaml\na: 1\n") \o Fence \o Chars("\n</eslint-code-block>\n"),
     Chars("# t\n\n> old\n\n") \o Fence \o Chars("yaml\n---\na: 1\n") \o Fence \o Chars("\n"),
     Chars("# t\r\n\r\n> old\r\n\r\nText.\r\n")}

-----------------------------------------------------------------------------
(* The program: for (const rule of rules) DocFile.read(rule).update...().write() *)

\* A read that goes on to the next rule when the file does not exist.
ReadSkipsMissing ==
    /\ pc = "loop"
    /\ LET name == rules[idx].ruleName
       IN  /\ log' = Append(log, <<"read", name>>)
           /\ IF IsPresent(files[name])
              THEN /\ content' = ValueOf(files[name])
                   /\ input' = ValueOf(files[name])
                   /\ pc' = "read"
                   /\ idx' = idx
              ELSE /\ pc' = IF idx < Len(rules) THEN "loop" ELSE "exit"
                   /\ idx' = idx + 1
                   /\ UNCHANGED <<content, input>>
    /\ UNCHANGED <<rules, files, isWin, once, rules0, files0, pass>>

\* new DocFile(rule): fs.readFileSync throws when the file does not exist,
\* nothing catches it, and the process ends.
Read ==
    /\ pc = "loop"
    /\ LET name == rules[idx].ruleName
       IN  /\ log' = Append(log, <<"read", name>>)
           /\ IF IsPresent(files[name])
              THEN /\ content' = ValueOf(files[name])
                   /\ input' = ValueOf(files[name])
                   /\ pc' = "read"
              ELSE /\ pc' = "aborted"
                   /\ UNCHANGED <<content, input>>
    /\ UNCHANGED <<rules, files, isWin, idx, once, rules0, files0, pass>>

UpdateHeader ==
    /\ pc = "read"
    /\ content' = updateHeaderText(content, rules[idx])
    /\ rules' = [rules EXCEPT ![idx] = updateHeaderRule(@)]
    /\ pc' = "updateHeader"
    /\ UNCHANGED <<files, isWin, idx, input, once, rules0, files0, log, pass>>

UpdateFooter ==
    /\ pc = "updateHeader"
    /\ content' = updateFooterText(content, rules[idx])
    /\ pc' = "updateFooter"
    /\ UNCHANGED <<rules, files, isWin, idx, input, once, rules0, files0, log, pass>>

UpdateCodeBlocks ==
    /\ pc = "updateFooter"
    /\ content' = updateCodeBlocksText(content, rules[idx])
    /\ pc' = "updateCodeBlocks"
    /\ UNCHANGED <<rules, files, isWin, idx, input, once, rules0, files0, log, pass>>

UpdateFileIntro ==
    /\ pc = "updateCodeBlocks"
    /\ content' = updateFileIntroText(content, rules[idx])
    /\ pc' = "updateFileIntro"
    /\ UNCHANGED <<rules, files, isWin, idx, input, once, rules0, files0, log, pass>>

AdjustCodeBlocks ==
    /\ pc = "updateFileIntro"
    /\ content' = adjustCodeBlocksText(content)
    /\ pc' = "adjustCodeBlocks"
    /\ UNCHANGED <<rules, files, isWin, idx, input, once, rules0, files0, log, pass>>

\* write(), and the for loop going on to the next rule or ending.
Write ==
    /\ pc = "adjustCodeBlocks"
    /\ LET name == rules[idx].ruleName
           text == writeText(content, isWin)
       IN  /\ content' = text
           /\ files' = [files EXCEPT ![name] = Present(text)]
           /\ log' = Append(log, <<"write", name, text>>)
    /\ idx' = idx + 1
    /\ pc' = IF idx < Len(rules) THEN "loop" ELSE "exit"
    /\ UNCHANGED <<rules, isWin, input, once, rules0, files0, pass>>

\* The tool is started again on the files the last run left: the registry is
\* loaded afresh.
Rerun ==
    /\ pc = "exit"
    /\ pass < MaxPass
    /\ pass' = pass + 1
    /\ rules' = rules0
    /\ files0' = files
    /\ idx' = 1
    /\ pc' = "loop"
    /\ content' = <<>>
    /\ input' = <<>>
    /\ log' = <<>>
    /\ UNCHANGED <<files, isWin, once, rules0>>

Next ==
    \/ Read
    \/ UpdateHeader
    \/ UpdateFooter
    \/ UpdateCodeBlocks
    \/ UpdateFileIntro
    \/ AdjustCodeBlocks
    \/ Write
    \/ Rerun

\* A registry of 1..MaxRules rules, each file missing or one of MainDocs, on
\* either platform.
Init ==
    /\ rules \in UNION {RegistriesOf(n) : n \in 1..MaxRules}
    /\ files \in [{RuleNames[k] : k \in 1..Len(rules)} ->
                    {Absent} \cup {Present(d) : d \in MainDocs}]
    /\ isWin \in BOOLEAN
    /\ idx = 1
    /\ pc = "loop"
    /\ content = <<>>
    /\ input = <<>>
    /\ once = Absent
    /\ rules0 = rules
    /\ files0 = files
    /\ log = <<>>
    /\ pass = 1

Spec == Init /\ [][Next]_vars

-----------------------------------------------------------------------------
(* One operation applied to a document: the DocFile has been read (pc is the
   step before the operation) and holds one of the documents docs. *)

InitOperation(rs, docs, at) ==
    /\ rules \in {<<r>> : r \in rs}
    /\ content \in docs
    /\ input = content
    /\ files = [n \in {rules[1].ruleName} |-> Present(content)]
    /\ isWin = FALSE
    /\ idx = 1
    /\ pc = at
    /\ once = Absent
    /\ rules0 = rules
    /\ files0 = files
    /\ log = <<>>
    /\ pass = 1

InitHeader == InitOperation(HeaderRules, HeaderDocs, "read")
SpecHeader == InitHeader /\ [][UpdateHeader]_vars

InitFooter == InitOperation(FooterRules, FooterDocs, "updateHeader")
SpecFooter == InitFooter /\ [][UpdateFooter]_vars

InitIntro == InitOperation({PlainRule}, IntroDocs, "updateCodeBlocks")
SpecIntro == InitIntro /\ [][UpdateFileIntro]_vars

InitEscape == InitOperation(EscapeRules, EscapeDocs, "updateCodeBlocks")
SpecEscape == InitEscape /\ [][UpdateFileIntro]_vars

\* updateCodeBlocks called once more on its own result.
ReapplyCodeBlocks ==
    /\ pc = "updateCodeBlocks"
    /\ once = Absent
    /\ once' = Present(content)
    /\ content' = updateCodeBlocksText(content, rules[idx])
    /\ UNCHANGED <<rules, files, isWin, idx, pc, input, rules0, files0, log, pass>>

InitCodeBlocks == InitOperation(CodeBlockRules, CodeBlockDocs, "updateFooter")
NextCodeBlocks == UpdateCodeBlocks \/ ReapplyCodeBlocks
SpecCodeBlocks == InitCodeBlocks /\ [][NextCodeBlocks]_vars

-----------------------------------------------------------------------------
(* Vocabulary of the properties *)

Occurrences(s, lit) == {i \in 1..Len(s) : StartsWithAt(s, i, lit)}
Contains(s, lit) == Occurrences(s, lit) # {}
IsPrefixOf(a, s) == Len(a) <= Len(s) /\ SubSeq(s, 1, Len(a)) = a
IsSuffixOf(a, s) == Len(a) <= Len(s) /\ SubSeq(s, Len(s) - Len(a) + 1, Len(s)) = a
EndsWith(s, a) == IsSuffixOf(a, s)
Range(q) == {q[k] : k \in 1..Len(q)}

\* The rule the operation was called for, as the registry held it before.
RuleBefore == rules0[idx]

\* content is the text before the place the header went to, then block,
\* then text the document already had: what was left of it after the
\* replaced header, or all of it, trimmed, behind an inserted one; that
\* text, when there is any, starts right after block.
HeaderIs(block) ==
    \E p \in 1..(Len(content) + 1) :
        /\ StartsWithAt(content, p, block)
        /\ LET pre == SubSeq(content, 1, p - 1)
               rest == SubSeq(content, p + Len(block), Len(content))
           IN  /\ \/ /\ IsPrefixOf(pre, input)
                     /\ IsSuffixOf(rest, input)
                     /\ Len(pre) + Len(rest) < Len(input)
                  \/ /\ pre = <<>>
                     /\ rest = Trim(input) \o Chars("\n")
               /\ Trim(rest) # <<>> => rest[1] # "\n"

\* `"plugin:yml/<name>"` in backticks.
QuotedPreset(name) ==
    <<Backtick, "\"">> \o Chars("plugin:yml/") \o Chars(name) \o <<"\"", Backtick>>

\* The presets of the rule in lexical order.
PresetsInOrder == <<"recommended", "standard", "strict">>
ExpectedPresets(rule) ==
    LET names == SelectSeq(PresetsInOrder,
                           LAMBDA n : n \in Range(ValueOf(rule.categories)))
    IN  [k \in 1..Len(names) |-> QuotedPreset(names[k])]

\* items with ", " between them.
RECURSIVE CommaSeparated(_)
CommaSeparated(items) ==
    IF Len(items) = 1 THEN items[1]
    ELSE CommaSeparated(SubSeq(items, 1, Len(items) - 1))
            \o <<",", " ">> \o items[Len(items)]

\* The list grammar of the notes, for one item or more.
ExpectedList(items) ==
    CASE Len(items) = 1 -> items[1]
      [] Len(items) = 2 -> items[1] \o Chars(" and ") \o items[2]
      [] Len(items) >= 3 ->
            Chars("all of ")
                \o CommaSeparated(SubSeq(items, 1, Len(items) - 1))
                \o Chars(" and ") \o items[Len(items)]

ExpectedTitle(rule) ==
    Chars("# ") \o Chars(rule.ruleId) \o Chars("\n\n> ") \o rule.description
        \o Chars("\n\n")

-----------------------------------------------------------------------------
(* C2 *)

HasPresets(rule) == IsPresent(rule.categories) /\ ValueOf(rule.categories) # <<>>

ExpectedPresetNote(rule) ==
    Chars("- :gear: This rule is included in ")
        \o ExpectedList(ExpectedPresets(rule)) \o Chars(".")

\* C2: after updateHeader for a rule that is not deprecated, is fixable and
\* has presets (in any order), the header is the title, then the preset note
\* with the presets in lexical order, then the fix note, then one empty line
\* and the text the document had, and there is no deprecation note; a
\* deprecated rule gets no preset note; and no other note follows the fix
\* note.
C2_PresetNoteThenFixNote ==
    pc = "updateHeader" =>
        /\ (~RuleBefore.deprecated /\ RuleBefore.fixable /\ HasPresets(RuleBefore)) =>
              /\ HeaderIs(ExpectedTitle(RuleBefore)
                            \o ExpectedPresetNote(RuleBefore) \o Chars("\n")
                            \o FixNote \o Chars("\n\n"))
              /\ ~Contains(content, Chars("- :warning:"))
        /\ RuleBefore.deprecated => ~Contains(content, Chars("- :gear:"))
        /\ RuleBefore.fixable =>
              \E p \in Occurrences(content, FixNote \o Chars("\n\n")) :
                  \A q \in Occurrences(content, Chars("- :gear:"))
                            \cup Occurrences(content, Chars("- :warning:")) : q < p

\* The header of a fixable rule with the presets ["strict", "recommended"]
\* has replaced the one the document had.
C2_Witness ==
    /\ pc = "updateHeader"
    /\ ~RuleBefore.deprecated
    /\ RuleBefore.fixable
    /\ RuleBefore.categories = Present(<<"strict", "recommended">>)
    /\ input = Chars("# t\n\n> old\n\nx\n")

-----------------------------------------------------------------------------
(* C3 *)

NoCategories(rule) ==
    ~IsPresent(rule.categories) \/ ValueOf(rule.categories) = <<>>

\* C3: for a rule that is not deprecated, not fixable and has no categories
\* (the field is absent or an empty list) the header is the title line and
\* the description line only: one empty line and then the text the document
\* had follow the description, and no note line is put in.
C3_NoNotesWithoutCategories ==
    (/\ pc = "updateHeader"
     /\ ~RuleBefore.deprecated
     /\ ~RuleBefore.fixable
     /\ NoCategories(RuleBefore)) =>
        /\ HeaderIs(ExpectedTitle(RuleBefore))
        /\ ~Contains(content, Chars("- :"))

-----------------------------------------------------------------------------
(* C4 *)

\* The link to a replacing rule as the claim words it: [A](A.md) rule.
LinkAsClaimed(name) ==
    Chars("[") \o Chars(name) \o Chars("](") \o Chars(name) \o Chars(".md) rule")

\* The link as amended: the link text is the rule id, [yml/A](A.md) rule.
LinkWithRuleId(name) ==
    Chars("[yml/") \o Chars(name) \o Chars("](") \o Chars(name) \o Chars(".md) rule")

ReplacedByNames == ValueOf(RuleBefore.replacedBy)

HeaderOfReplacedRule ==
    /\ pc = "updateHeader"
    /\ RuleBefore.deprecated
    /\ IsPresent(RuleBefore.replacedBy)
    /\ Len(ReplacedByNames) >= 1

\* C4 as claimed: the note of a deprecated rule lists its n >= 1 replacement
\* rules as [A](A.md) rule: one item is itself, two are "A and B", three or
\* more are "all of A, B and C".
C4_ListOfLinksAsClaimed ==
    HeaderOfReplacedRule =>
        Contains(content,
                 Chars("replaced by ")
                    \o ExpectedList([k \in 1..Len(ReplacedByNames) |->
                                        LinkAsClaimed(ReplacedByNames[k])])
                    \o Chars(".\n"))

\* C4 as amended: the same list grammar, of links whose text is the rule id:
\* the note reads "- :warning: This rule was **deprecated** and replaced by
\* all of [yml/a](a.md) rule, [yml/b](b.md) rule and [yml/c](c.md) rule."
C4_ListOfRuleIdLinks ==
    HeaderOfReplacedRule =>
        /\ Contains(content,
                    Chars("\n- :warning: This rule was **deprecated** and replaced by ")
                       \o ExpectedList([k \in 1..Len(ReplacedByNames) |->
                                           LinkWithRuleId(ReplacedByNames[k])])
                       \o Chars(".\n"))
        /\ ReplacedByNames = <<"a", "b", "c">> =>
              Contains(content,
                       Chars("replaced by all of [yml/a](a.md) rule, [yml/b](b.md) rule and [yml/c](c.md) rule.\n"))

\* The header of a rule replaced by three rules has been written.
C4_Witness ==
    /\ HeaderOfReplacedRule
    /\ ReplacedByNames = <<"a", "b", "c">>

-----------------------------------------------------------------------------
(* C1 *)

\* The line of s that starts at p is "---".
IsFenceLine(s, p) ==
    /\ p = 1 \/ s[p - 1] = "\n"
    /\ StartsWithAt(s, p, FrontMatterFence)
    /\ p + Len(FrontMatterFence) > Len(s) \/ s[p + Len(FrontMatterFence)] = "\n"

\* Where the line closing the front-matter block of s starts: the first
\* "---" line after the first line, 0 if there is none.
ClosingFence(s) == Least({p \in 2..Len(s) : IsFenceLine(s, p)})

\* s starts with a front-matter block: a "---" line, one line or more, and
\* the first "---" line that follows.
StartsWithFrontMatter(s) ==
    /\ IsFenceLine(s, 1)
    /\ ClosingFence(s) > Len(FrontMatterFence) + 2

\* The text after the closing line and the newlines that follow it.
BodyAfterFrontMatter(s) ==
    Drop(s, SkipIn(s, ClosingFence(s) + Len(FrontMatterFence), NL) - 1)

\* C1: updateFileIntro on a document that starts with a front-matter block
\* puts the computed block in its place and leaves the text after the block
\* as it was, whatever lines that text holds.
C1_ReplacesOnlyFrontMatter ==
    (pc = "updateFileIntro" /\ StartsWithFrontMatter(input)) =>
        content = computedIntro(RuleBefore) \o BodyAfterFrontMatter(input)

-----------------------------------------------------------------------------
(* C5 *)

\* C5: updateCodeBlocks applied to its own result changes nothing, for a
\* fixable and for a non-fixable rule, whatever attributes the tags have.
C5_CodeBlocksIdempotent ==
    IsPresent(once) => content = ValueOf(once)

\* The tag <eslint-code-block someattr> of a fixable rule's page was
\* rewritten, and rewritten again.
C5_Witness ==
    /\ IsPresent(once)
    /\ RuleBefore.fixable
    /\ input = EslintCodeBlock \o Chars(" someattr>")
    /\ ValueOf(once) = EslintCodeBlock \o Chars(" fix someattr>")

-----------------------------------------------------------------------------
(* C6 *)

\* The front-matter lines before the description value.
IntroBeforeDescription ==
    Chars("---\npageClass: \"rule-details\"\nsidebarDepth: 0\ntitle: \"")
        \o Chars(RuleBefore.ruleId) \o Chars("\"\ndescription: ")

\* s with every backslash doubled and a backslash before every double quote.
Escaped(s) ==
    Concat([k \in 1..Len(s) |->
                IF s[k] \in {"\\", "\""} THEN <<"\\", s[k]>> ELSE <<s[k]>>])

\* The positions of s that a backslash escapes (an escaping backslash is one
\* that is not escaped itself).
EscapedAt(s) ==
    {k \in 2..Len(s) :
        /\ s[k - 1] = "\\"
        /\ (k - 1 - SkipInBack(s, k - 1, {"\\"})) % 2 = 1}

\* s with its escapes undone: the escaping backslashes taken out.
Unescaped(s) ==
    LET keep == {k \in 1..Len(s) :
                    k \in EscapedAt(s) \/ ~(s[k] = "\\" /\ k + 1 \in EscapedAt(s))}
    IN  Concat([k \in 1..Len(s) |-> IF k \in keep THEN <<s[k]>> ELSE <<>>])

\* The description value of the block at the top of content: what follows
\* "description: " up to the line that closes the block.
DescriptionValue ==
    LET from == Len(IntroBeforeDescription) + 1
        closes == {p \in Occurrences(content, Chars("\n---\n")) : p >= from}
    IN  SubSeq(content, from, Least(closes) - 1)

\* C6: the description value updateFileIntro puts in the front matter, by
\* inserting the block or by replacing one, is the description in double
\* quotes with every backslash doubled and every double quote behind a
\* backslash: undoing the escapes gives the description back and no double
\* quote inside the value is left unescaped.
C6_DescriptionEscaped ==
    pc = "updateFileIntro" =>
        /\ IsPrefixOf(IntroBeforeDescription, content)
        /\ LET value == DescriptionValue
               inner == SubSeq(value, 2, Len(value) - 1)
           IN  /\ value = <<"\"">> \o Escaped(RuleBefore.description) \o <<"\"">>
               /\ Unescaped(inner) = RuleBefore.description
               /\ \A k \in 1..Len(inner) :
                      inner[k] = "\"" => k \in EscapedAt(inner)
        /\ Contains(content, Chars("\nsidebarDepth: 0\n"))

-----------------------------------------------------------------------------
(* C9 *)

ExpectedFooter(rule) ==
    Chars("## Implementation\n\n- [Rule source](https://github.com/ota-meshi/eslint-plugin-yml/blob/master/src/rules/")
        \o Chars(rule.ruleName)
        \o Chars(".ts)\n- [Test source](https://github.com/ota-meshi/eslint-plugin-yml/blob/master/tests/src/rules/")
        \o Chars(rule.ruleName) \o Chars(".js)\n")
        \o (IF rule.extensionRule
            THEN Chars("\n<sup>Taken with ") \o Heart
                    \o Chars(" [from ESLint core](https://eslint.org/docs/rules/")
                    \o Chars(rule.ruleName) \o Chars(")</sup>\n")
            ELSE <<>>)

\* C9: after updateFooter the document ends with the Implementation section
\* (with the attribution line exactly for an extension rule) and holds one
\* "## Implementation" heading: the text before the first heading of the
\* document is unchanged and the section replaces the rest, or, without a
\* heading, the section follows the trimmed document.
C9_OneImplementationSection ==
    pc = "updateFooter" =>
        LET first == Least(Occurrences(input, ImplementationHeading))
        IN  /\ EndsWith(content, ExpectedFooter(RuleBefore))
            /\ Cardinality(Occurrences(content, ImplementationHeading)) = 1
            /\ Contains(content, Chars("<sup>Taken with")) <=> RuleBefore.extensionRule
            /\ IF first # 0
               THEN content = SubSeq(input, 1, first - 1) \o ExpectedFooter(RuleBefore)
               ELSE content = Trim(input) \o Chars("\n\n") \o ExpectedFooter(RuleBefore)

-----------------------------------------------------------------------------
(* C7 *)

NameAt(k) == rules[k].ruleName

\* C7: the files are read and written one rule after the other, in the
\* order of the registry: the file of a rule is written before the file of
\* the next rule is read.  A rule whose file is missing ends the run: its
\* file is not written, nothing is read or written after the failed read,
\* the files of the rules before it hold what was written to them and the
\* files of the rules after it are as the run found them.
C7_SequentialAndFatal ==
    /\ \A k \in 1..Len(log) :
          IF k % 2 = 1
          THEN log[k] = <<"read", NameAt((k + 1) \div 2)>>
          ELSE log[k][1] = "write" /\ log[k][2] = NameAt(k \div 2)
    /\ Len(log) \in {2 * (idx - 1), 2 * idx - 1}
    /\ \A j \in 1..Len(rules) :
          IF j < idx
          THEN files[NameAt(j)] = Present(log[2 * j][3])
          ELSE files[NameAt(j)] = files0[NameAt(j)]
    /\ pc = "aborted" =>
          /\ files[NameAt(idx)] = Absent
          /\ Len(log) = 2 * idx - 1
          /\ ~ENABLED Next

\* The run ended at a rule whose file is missing, after it had written the
\* file of the rule before.
C7_Witness ==
    /\ pc = "aborted"
    /\ idx >= 2
    /\ files[NameAt(idx - 1)] # files0[NameAt(idx - 1)]

-----------------------------------------------------------------------------
(* C8 *)

\* C8: no operation changes the rule descriptors: the registry is at every
\* step what it was when the run started, the order of every category list
\* included.
C8_DescriptorsUnchanged == rules = rules0

-----------------------------------------------------------------------------
(* C10 *)

\* C10: a second run of the tool on the files the first run wrote, with the
\* same registry, leaves every file as the first run wrote it.
C10_SecondRunChangesNothing ==
    (pass >= 2 /\ pc = "exit") => files = files0

====
